---- MODULE Spec2Model ----
(***************************************************************************)
(* Browser-automation verification scripts of neo-tokyo-rival-academies:   *)
(*   scripts/verify_rpg_gameplay.py  ("rpg")                               *)
(*   verify_mall.py                  ("mall")                              *)
(*   verify_game.py                  ("game")                              *)
(* One run of a script is a sequential program.  Every Playwright call is  *)
(* one action; its outcome ("ok", "raise", and "false" for is_visible) is  *)
(* decided by the target page and by fault injection.  Every call is       *)
(* appended to trace, every written screenshot is added to files, which    *)
(* outlive a run (the output directory).  time.sleep calls change no state *)
(* and are folded into the action that follows them; os.makedirs creates   *)
(* a directory and no file.                                                *)
(***************************************************************************)
EXTENDS Naturals, Sequences, FiniteSets

\* Number of consecutive runs of a script against the same output directory.
MaxRuns == 2

\* range(5) of the dialogue click loop.
ClickCount == 5
\* page.mouse.click(640, 360)
CenterX == 640
CenterY == 360

RpgUrl == "http://localhost:4321/neo-tokyo-rival-academies/"
MallUrl == "http://localhost:4321/neo-tokyo-rival-academies"
CanvasSelector == "canvas"
StartText == "INITIATE STORY MODE"

MenuPng == "/home/jules/verification/1_menu.png"
IntroPng == "/home/jules/verification/2_dialogue_intro.png"
GameplayHudPng == "/home/jules/verification/3_gameplay_hud.png"
ErrorPng == "/home/jules/verification/error.png"
MallGameplayPng == "/home/jules/verification/mall_background_gameplay.png"
MenuFailedPng == "/home/jules/verification/menu_failed.png"

Scripts == {"rpg", "mall", "game"}

\* The page under test: is the URL served, does it show a canvas, does it
\* show the start control.
Targets == [reachable : BOOLEAN, canvas : BOOLEAN, startVisible : BOOLEAN]

VARIABLES
  script,     \* which script is run
  run,        \* number of the current run
  pc,         \* position of the run
  i,          \* loop variable of the click loop
  exc,        \* "none", "caught" (a handler took it) or "pending" (propagating)
  browser,    \* "none", "open", "closed" (close() returned) or "stopped"
  target,     \* the page under test during this run
  trace,      \* the calls made in this run, with their outcomes
  files,      \* the image files in the output directories
  prevTrace,  \* trace of the previous run
  prevFiles   \* files at the end of the previous run

vars == <<script, run, pc, i, exc, browser, target, trace, files, prevTrace, prevFiles>>

Ev(op, arg, res) == [op |-> op, arg |-> arg, x |-> 0, y |-> 0, res |-> res]
ClickEv(px, py, res) == [op |-> "mouse_click", arg |-> "", x |-> px, y |-> py, res |-> res]

\* The file a screenshot to path leaves behind in run r, versioned per run.
ArtifactFileVersioned(path, r) == [name |-> path, ver |-> r]
\* The file a screenshot to path leaves behind: the path itself, whatever the run.
ArtifactFile(path, r) == [name |-> path, ver |-> 0]

\* page.goto raises when the URL is not served.
GotoOutcomes(t) == IF t.reachable THEN {"ok"} ELSE {"raise"}
\* page.wait_for_selector("canvas") raises TimeoutError when no canvas shows up.
WaitOutcomes(t) == IF t.canvas THEN {"ok"} ELSE {"raise"}
\* locator.click() raises when the control never becomes visible.
ClickStartOutcomes(t) == IF t.startVisible THEN {"ok", "raise"} ELSE {"raise"}
\* locator.is_visible() returns True ("ok"), False, or raises.
IsVisibleOutcomes(t) == IF t.startVisible THEN {"ok", "raise"} ELSE {"false", "raise"}
\* any other call succeeds or raises
CallOutcomes == {"ok", "raise"}

Init ==
  /\ script \in Scripts
  /\ run = 1
  /\ pc = "launch"
  /\ i = 0
  /\ exc = "none"
  /\ browser = "none"
  /\ target \in Targets
  /\ trace = <<>>
  /\ files = {}
  /\ prevTrace = <<>>
  /\ prevFiles = {}

\* page.screenshot(path=path) with outcome res
Screenshot(path, res) ==
  /\ trace' = Append(trace, Ev("screenshot", path, res))
  /\ files' = IF res = "ok" THEN files \cup {ArtifactFile(path, run)} ELSE files

\* any other call: recorded, leaves the files alone
Call(ev) ==
  /\ trace' = Append(trace, ev)
  /\ files' = files

(***************************************************************************)
(* scripts/verify_rpg_gameplay.py                                          *)
(***************************************************************************)

\* browser = p.chromium.launch(headless=True)
Rpg_Launch ==
  /\ script = "rpg" /\ pc = "launch"
  /\ \E res \in CallOutcomes :
       /\ Call(Ev("launch", "chromium", res))
       /\ IF res = "ok"
            THEN pc' = "new_page" /\ browser' = "open" /\ exc' = exc
            ELSE pc' = "with_exit" /\ browser' = browser /\ exc' = "pending"
  /\ UNCHANGED <<script, run, i, target, prevTrace, prevFiles>>

\* page = browser.new_page(), before the try statement
Rpg_NewPage ==
  /\ script = "rpg" /\ pc = "new_page"
  /\ \E res \in CallOutcomes :
       /\ Call(Ev("new_page", "", res))
       /\ IF res = "ok"
            THEN pc' = "set_viewport" /\ exc' = exc
            ELSE pc' = "with_exit" /\ exc' = "pending"
  /\ UNCHANGED <<script, run, i, browser, target, prevTrace, prevFiles>>

\* page.set_viewport_size({1280, 720}), before the try statement
Rpg_SetViewport ==
  /\ script = "rpg" /\ pc = "set_viewport"
  /\ \E res \in CallOutcomes :
       /\ Call(Ev("set_viewport", "1280x720", res))
       /\ IF res = "ok"
            THEN pc' = "goto" /\ exc' = exc
            ELSE pc' = "with_exit" /\ exc' = "pending"
  /\ UNCHANGED <<script, run, i, browser, target, prevTrace, prevFiles>>

\* page.goto(url), retried once after a failure
Rpg_GotoRetry ==
  /\ script = "rpg" /\ pc = "goto"
  /\ \E res \in GotoOutcomes(target) :
       /\ Call(Ev("goto", RpgUrl, res))
       /\ IF res = "ok"
            THEN pc' = "wait" /\ exc' = exc
            ELSE IF Len(trace) < 4
                   THEN pc' = "goto" /\ exc' = exc
                   ELSE pc' = "handler" /\ exc' = "caught"
  /\ UNCHANGED <<script, run, i, browser, target, prevTrace, prevFiles>>

\* page.goto(url); an exception goes to the handler of __main__
Rpg_Goto ==
  /\ script = "rpg" /\ pc = "goto"
  /\ \E res \in GotoOutcomes(target) :
       /\ Call(Ev("goto", RpgUrl, res))
       /\ IF res = "ok"
            THEN pc' = "wait" /\ exc' = exc
            ELSE pc' = "handler" /\ exc' = "caught"
  /\ UNCHANGED <<script, run, i, browser, target, prevTrace, prevFiles>>

\* the canvas wait without a timeout: it returns only once a canvas is there
Rpg_WaitCanvasBlocks ==
  /\ script = "rpg" /\ pc = "wait"
  /\ target.canvas
  /\ Call(Ev("wait_for_selector", CanvasSelector, "ok"))
  /\ pc' = "shot_menu"
  /\ UNCHANGED <<script, run, i, exc, browser, target, prevTrace, prevFiles>>

\* page.wait_for_selector("canvas"), bounded by Playwright's default timeout
Rpg_WaitCanvas ==
  /\ script = "rpg" /\ pc = "wait"
  /\ \E res \in WaitOutcomes(target) :
       /\ Call(Ev("wait_for_selector", CanvasSelector, res))
       /\ IF res = "ok"
            THEN pc' = "shot_menu" /\ exc' = exc
            ELSE pc' = "handler" /\ exc' = "caught"
  /\ UNCHANGED <<script, run, i, browser, target, prevTrace, prevFiles>>

\* time.sleep(5); page.screenshot(path=".../1_menu.png")
Rpg_ScreenshotMenu ==
  /\ script = "rpg" /\ pc = "shot_menu"
  /\ \E res \in CallOutcomes :
       /\ Screenshot(MenuPng, res)
       /\ IF res = "ok"
            THEN pc' = "click_start" /\ exc' = exc
            ELSE pc' = "handler" /\ exc' = "caught"
  /\ UNCHANGED <<script, run, i, browser, target, prevTrace, prevFiles>>

\* the start click, going on to the intro after a failure
Rpg_ClickStartContinue ==
  /\ script = "rpg" /\ pc = "click_start"
  /\ \E res \in ClickStartOutcomes(target) :
       /\ Call(Ev("click_text", StartText, res))
       /\ pc' = "shot_intro"
  /\ UNCHANGED <<script, run, i, exc, browser, target, prevTrace, prevFiles>>

\* try: page.get_by_text("INITIATE STORY MODE").click()  except: return
Rpg_ClickStart ==
  /\ script = "rpg" /\ pc = "click_start"
  /\ \E res \in ClickStartOutcomes(target) :
       /\ Call(Ev("click_text", StartText, res))
       /\ pc' = IF res = "ok" THEN "shot_intro" ELSE "finally"
  /\ UNCHANGED <<script, run, i, exc, browser, target, prevTrace, prevFiles>>

\* the intro screenshot, written over the menu screenshot
Rpg_ScreenshotIntroSamePath ==
  /\ script = "rpg" /\ pc = "shot_intro"
  /\ \E res \in CallOutcomes :
       /\ Screenshot(MenuPng, res)
       /\ IF res = "ok"
            THEN pc' = "center_click" /\ exc' = exc
            ELSE pc' = "handler" /\ exc' = "caught"
  /\ i' = 0
  /\ UNCHANGED <<script, run, browser, target, prevTrace, prevFiles>>

\* time.sleep(2); page.screenshot(path=".../2_dialogue_intro.png")
Rpg_ScreenshotIntro ==
  /\ script = "rpg" /\ pc = "shot_intro"
  /\ \E res \in CallOutcomes :
       /\ Screenshot(IntroPng, res)
       /\ IF res = "ok"
            THEN pc' = "center_click" /\ exc' = exc
            ELSE pc' = "handler" /\ exc' = "caught"
  /\ i' = 0
  /\ UNCHANGED <<script, run, browser, target, prevTrace, prevFiles>>

\* the click loop, leaving one iteration early
Rpg_CenterClickShort ==
  /\ script = "rpg" /\ pc = "center_click"
  /\ \E res \in CallOutcomes :
       /\ Call(ClickEv(CenterX, CenterY, res))
       /\ IF res = "ok"
            THEN /\ i' = i + 1
                 /\ pc' = IF i + 2 < ClickCount THEN "center_click" ELSE "shot_gameplay"
                 /\ exc' = exc
            ELSE /\ i' = i
                 /\ pc' = "handler"
                 /\ exc' = "caught"
  /\ UNCHANGED <<script, run, browser, target, prevTrace, prevFiles>>

\* for i in range(5): page.mouse.click(640, 360); time.sleep(1.0)
Rpg_CenterClick ==
  /\ script = "rpg" /\ pc = "center_click"
  /\ \E res \in CallOutcomes :
       /\ Call(ClickEv(CenterX, CenterY, res))
       /\ IF res = "ok"
            THEN /\ i' = i + 1
                 /\ pc' = IF i + 1 < ClickCount THEN "center_click" ELSE "shot_gameplay"
                 /\ exc' = exc
            ELSE /\ i' = i
                 /\ pc' = "handler"
                 /\ exc' = "caught"
  /\ UNCHANGED <<script, run, browser, target, prevTrace, prevFiles>>

\* time.sleep(3); page.screenshot(path=".../3_gameplay_hud.png")
Rpg_ScreenshotGameplay ==
  /\ script = "rpg" /\ pc = "shot_gameplay"
  /\ \E res \in CallOutcomes :
       /\ Screenshot(GameplayHudPng, res)
       /\ IF res = "ok"
            THEN pc' = "finally" /\ exc' = exc
            ELSE pc' = "handler" /\ exc' = "caught"
  /\ UNCHANGED <<script, run, i, browser, target, prevTrace, prevFiles>>

\* except Exception as e: print; page.screenshot(path=".../error.png")
Rpg_Handler ==
  /\ script = "rpg" /\ pc = "handler"
  /\ \E res \in CallOutcomes :
       /\ Screenshot(ErrorPng, res)
       /\ exc' = IF res = "ok" THEN "caught" ELSE "pending"
  /\ pc' = "finally"
  /\ UNCHANGED <<script, run, i, browser, target, prevTrace, prevFiles>>

\* finally: browser.close().  The call is not guarded: when it raises, its
\* exception replaces any pending one and leaves the script, and the
\* browser has not been closed by the call.
Rpg_Finally ==
  /\ script = "rpg" /\ pc = "finally"
  /\ \E res \in CallOutcomes :
       /\ Call(Ev("close", "", res))
       /\ IF res = "ok"
            THEN browser' = "closed" /\ exc' = exc
            ELSE browser' = browser /\ exc' = "pending"
  /\ pc' = "with_exit"
  /\ UNCHANGED <<script, run, i, target, prevTrace, prevFiles>>

(***************************************************************************)
(* verify_mall.py                                                          *)
(***************************************************************************)

\* browser = p.chromium.launch(headless=True)
Mall_Launch ==
  /\ script = "mall" /\ pc = "launch"
  /\ \E res \in CallOutcomes :
       /\ Call(Ev("launch", "chromium", res))
       /\ IF res = "ok"
            THEN pc' = "new_page" /\ browser' = "open" /\ exc' = exc
            ELSE pc' = "with_exit" /\ browser' = browser /\ exc' = "pending"
  /\ UNCHANGED <<script, run, i, target, prevTrace, prevFiles>>

\* page = browser.new_page(viewport={1280, 720}), before the try statement
Mall_NewPage ==
  /\ script = "mall" /\ pc = "new_page"
  /\ \E res \in CallOutcomes :
       /\ Call(Ev("new_page", "1280x720", res))
       /\ IF res = "ok"
            THEN pc' = "goto" /\ exc' = exc
            ELSE pc' = "with_exit" /\ exc' = "pending"
  /\ UNCHANGED <<script, run, i, browser, target, prevTrace, prevFiles>>

\* page.goto(url), outside the try of test_game_load: an exception
\* propagates to the try/finally of __main__, which has no handler
Mall_Goto ==
  /\ script = "mall" /\ pc = "goto"
  /\ \E res \in GotoOutcomes(target) :
       /\ Call(Ev("goto", MallUrl, res))
       /\ IF res = "ok"
            THEN pc' = "wait" /\ exc' = exc
            ELSE pc' = "finally" /\ exc' = "pending"
  /\ UNCHANGED <<script, run, i, browser, target, prevTrace, prevFiles>>

\* page.wait_for_selector("canvas", timeout=30000), outside the try too
Mall_WaitCanvas ==
  /\ script = "mall" /\ pc = "wait"
  /\ \E res \in WaitOutcomes(target) :
       /\ Call(Ev("wait_for_selector", CanvasSelector, res))
       /\ IF res = "ok"
            THEN pc' = "is_visible" /\ exc' = exc
            ELSE pc' = "finally" /\ exc' = "pending"
  /\ UNCHANGED <<script, run, i, browser, target, prevTrace, prevFiles>>

\* time.sleep(2); start_btn = page.get_by_text(...); if start_btn.is_visible():
Mall_IsVisible ==
  /\ script = "mall" /\ pc = "is_visible"
  /\ \E res \in IsVisibleOutcomes(target) :
       /\ Call(Ev("is_visible", StartText, res))
       /\ IF res = "ok"
            THEN pc' = "click_start" /\ exc' = exc
            ELSE IF res = "false"
                   THEN pc' = "shot_menu_failed" /\ exc' = exc
                   ELSE pc' = "inner_handler" /\ exc' = "caught"
  /\ UNCHANGED <<script, run, i, browser, target, prevTrace, prevFiles>>

\* start_btn.click(); time.sleep(3)
Mall_ClickStart ==
  /\ script = "mall" /\ pc = "click_start"
  /\ \E res \in ClickStartOutcomes(target) :
       /\ Call(Ev("click_text", StartText, res))
       /\ IF res = "ok"
            THEN pc' = "center_click" /\ exc' = exc
            ELSE pc' = "inner_handler" /\ exc' = "caught"
  /\ i' = 0
  /\ UNCHANGED <<script, run, browser, target, prevTrace, prevFiles>>

\* for i in range(5): page.mouse.click(640, 360); time.sleep(0.5)
Mall_CenterClick ==
  /\ script = "mall" /\ pc = "center_click"
  /\ \E res \in CallOutcomes :
       /\ Call(ClickEv(CenterX, CenterY, res))
       /\ IF res = "ok"
            THEN /\ i' = i + 1
                 /\ pc' = IF i + 1 < ClickCount THEN "center_click" ELSE "shot_gameplay"
                 /\ exc' = exc
            ELSE /\ i' = i
                 /\ pc' = "inner_handler"
                 /\ exc' = "caught"
  /\ UNCHANGED <<script, run, browser, target, prevTrace, prevFiles>>

\* time.sleep(2); page.screenshot(path=".../mall_background_gameplay.png")
Mall_ScreenshotGameplay ==
  /\ script = "mall" /\ pc = "shot_gameplay"
  /\ \E res \in CallOutcomes :
       /\ Screenshot(MallGameplayPng, res)
       /\ IF res = "ok"
            THEN pc' = "finally" /\ exc' = exc
            ELSE pc' = "inner_handler" /\ exc' = "caught"
  /\ UNCHANGED <<script, run, i, browser, target, prevTrace, prevFiles>>

\* else: page.screenshot(path=".../menu_failed.png"), still inside the try
Mall_ScreenshotMenuFailed ==
  /\ script = "mall" /\ pc = "shot_menu_failed"
  /\ \E res \in CallOutcomes :
       /\ Screenshot(MenuFailedPng, res)
       /\ IF res = "ok"
            THEN pc' = "finally" /\ exc' = exc
            ELSE pc' = "inner_handler" /\ exc' = "caught"
  /\ UNCHANGED <<script, run, i, browser, target, prevTrace, prevFiles>>

\* except Exception as e: print; page.screenshot(path=".../error.png")
Mall_Handler ==
  /\ script = "mall" /\ pc = "inner_handler"
  /\ \E res \in CallOutcomes :
       /\ Screenshot(ErrorPng, res)
       /\ exc' = IF res = "ok" THEN "caught" ELSE "pending"
  /\ pc' = "finally"
  /\ UNCHANGED <<script, run, i, browser, target, prevTrace, prevFiles>>

\* finally: browser.close().  The call is not guarded: when it raises, its
\* exception replaces any pending one and leaves the script, and the
\* browser has not been closed by the call.
Mall_Finally ==
  /\ script = "mall" /\ pc = "finally"
  /\ \E res \in CallOutcomes :
       /\ Call(Ev("close", "", res))
       /\ IF res = "ok"
            THEN browser' = "closed" /\ exc' = exc
            ELSE browser' = browser /\ exc' = "pending"
  /\ pc' = "with_exit"
  /\ UNCHANGED <<script, run, i, target, prevTrace, prevFiles>>

(***************************************************************************)
(* Both scripts run inside "with sync_playwright() as p:".  Whichever way  *)
(* the body is left (normally, or by an exception of launch, new_page,     *)
(* set_viewport_size or close), the exit of the with block stops           *)
(* Playwright, and stopping Playwright ends a browser it launched that is  *)
(* still open.  The exit is no call of the script and is not in trace.     *)
(***************************************************************************)

\* leaving "with sync_playwright() as p:" of verify_rpg_gameplay.py
Rpg_WithExit ==
  /\ script = "rpg" /\ pc = "with_exit"
  /\ browser' = IF browser = "open" THEN "stopped" ELSE browser
  /\ pc' = "done"
  /\ UNCHANGED <<script, run, i, exc, target, trace, files, prevTrace, prevFiles>>

\* leaving "with sync_playwright() as p:" of verify_mall.py
Mall_WithExit ==
  /\ script = "mall" /\ pc = "with_exit"
  /\ browser' = IF browser = "open" THEN "stopped" ELSE browser
  /\ pc' = "done"
  /\ UNCHANGED <<script, run, i, exc, target, trace, files, prevTrace, prevFiles>>

(***************************************************************************)
(* verify_game.py.  The try statement opened on line 11 has neither an     *)
(* except nor a finally clause before the statement on line 32 ends it, so *)
(* compiling the file raises SyntaxError and no statement of it runs: no   *)
(* browser is launched, no page is visited, no file is written.            *)
(***************************************************************************)
Game_Compile ==
  /\ script = "game" /\ pc = "launch"
  /\ Call(Ev("compile", "verify_game.py", "raise"))
  /\ pc' = "done"
  /\ exc' = "pending"
  /\ UNCHANGED <<script, run, i, browser, target, prevTrace, prevFiles>>

\* the script is started again, against the same output directory
Rerun ==
  /\ pc = "done" /\ run < MaxRuns
  /\ run' = run + 1
  /\ pc' = "launch"
  /\ i' = 0
  /\ exc' = "none"
  /\ browser' = "none"
  /\ target' \in Targets
  /\ trace' = <<>>
  /\ prevTrace' = trace
  /\ prevFiles' = files
  /\ UNCHANGED <<script, files>>

(***************************************************************************)
(* Vocabulary for the properties: positions in the trace of a run.         *)
(***************************************************************************)
Idx == 1..Len(trace)
IsCall(k, op) == trace[k].op = op
IsShot(k, path) == trace[k].op = "screenshot" /\ trace[k].arg = path
Ok(k) == trace[k].res = "ok"
Raised(k) == trace[k].res = "raise"
Count(S) == Cardinality(S)

\* the screenshots of checkpoints, as opposed to the error artifact
CheckpointPngs == {MenuPng, IntroPng, GameplayHudPng, MallGameplayPng, MenuFailedPng}
\* the screenshots of the checkpoints declared after the start step
LaterPngs == {IntroPng, GameplayHudPng, MallGameplayPng}
\* the final gameplay screenshot of either script
GameplayPngs == {GameplayHudPng, MallGameplayPng}
IsCheckpointShot(k) == trace[k].op = "screenshot" /\ trace[k].arg \in CheckpointPngs
\* the start step found no usable start control
StartFailedAt(k) ==
  \/ IsCall(k, "click_text") /\ Raised(k)
  \/ IsCall(k, "is_visible") /\ ~Ok(k)
Launched == \E k \in Idx : IsCall(k, "launch") /\ Ok(k)

\* C1: once the browser has been launched, a finished run has executed
\* browser.close() exactly once, whatever the outcome of the later steps.
ClosedExactlyOnce ==
  (pc = "done" /\ Launched) => Count({k \in Idx : IsCall(k, "close")}) = 1

\* C2: when the start control is absent or not visible, the run makes no
\* center-screen click and attempts no screenshot of a later checkpoint; the
\* same holds after any start step that failed.
StartMissingHalts ==
  ((~target.startVisible) \/ (\E k \in Idx : StartFailedAt(k)))
    => \A j \in Idx : /\ ~IsCall(j, "mouse_click")
                      /\ ~(trace[j].op = "screenshot" /\ trace[j].arg \in LaterPngs)
StartMissingHaltsWitness ==
  /\ pc = "done" /\ ~target.startVisible
  /\ \E k \in Idx : StartFailedAt(k)

\* C3 as stated: after a start step that found no start control, a finished
\* run has taken a diagnostic screenshot.
StartMissingDiagnostic ==
  pc = "done" => \A k \in Idx : StartFailedAt(k)
                    => \E j \in Idx : j > k /\ trace[j].op = "screenshot"

\* C4: in a finished run, an error raised by goto or by the canvas wait is
\* followed by exactly one screenshot to the error artifact, then by
\* browser.close(), and by nothing else.
NavigationErrorArtifact ==
  pc = "done" =>
    \A k \in Idx :
      ((IsCall(k, "goto") \/ IsCall(k, "wait_for_selector")) /\ Raised(k))
        => /\ Len(trace) = k + 2
           /\ IsShot(k + 1, ErrorPng)
           /\ IsCall(k + 2, "close")

\* the checkpoints of a script, and the artifact paths the script has for each
Checkpoints == {"menu", "start", "intro", "gameplay"}
CheckpointPaths(s, c) ==
  IF s = "rpg"
    THEN IF c = "menu" THEN {MenuPng}
         ELSE IF c = "intro" THEN {IntroPng}
         ELSE IF c = "gameplay" THEN {GameplayHudPng}
         ELSE {}
    ELSE IF s = "mall" /\ c = "gameplay" THEN {MallGameplayPng} ELSE {}
\* the checkpoint was processed successfully: its last step succeeded
Processed(c) ==
  IF c = "menu"
    THEN IF script = "rpg"
           THEN \E k \in Idx : IsShot(k, MenuPng) /\ Ok(k)
           ELSE \E k \in Idx : IsCall(k, "wait_for_selector") /\ Ok(k)
  ELSE IF c = "start"
    THEN \E k \in Idx : IsCall(k, "click_text") /\ Ok(k)
  ELSE IF c = "intro"
    THEN IF script = "rpg"
           THEN \E k \in Idx : IsShot(k, IntroPng) /\ Ok(k)
           ELSE Count({k \in Idx : IsCall(k, "mouse_click") /\ Ok(k)}) = ClickCount
  ELSE \E k \in Idx : trace[k].op = "screenshot" /\ trace[k].arg \in GameplayPngs /\ Ok(k)
WrittenAt(k) == IsCheckpointShot(k) /\ Ok(k)

\* C5 as stated: a finished run against a reachable page with a canvas has
\* written exactly one artifact for each successfully processed checkpoint
\* among menu, start, intro and gameplay.
OneArtifactPerCheckpoint ==
  (pc = "done" /\ target.reachable /\ target.canvas) =>
    \A c \in Checkpoints :
      Processed(c) =>
        Count({k \in Idx : WrittenAt(k) /\ trace[k].arg \in CheckpointPaths(script, c)}) = 1

\* the checkpoint screenshots a script can write
ScriptPngs(s) ==
  IF s = "rpg" THEN {MenuPng, IntroPng, GameplayHudPng}
  ELSE IF s = "mall" THEN {MallGameplayPng, MenuFailedPng}
  ELSE {}
\* the most checkpoint screenshots one run of a script writes
MaxArtifacts(s) == IF s = "rpg" THEN 3 ELSE IF s = "mall" THEN 1 ELSE 0

\* C5 amended: against a reachable page with a canvas, every successful
\* checkpoint screenshot writes one artifact at its fixed path (1_menu,
\* 2_dialogue_intro, 3_gameplay_hud in verify_rpg_gameplay;
\* mall_background_gameplay or menu_failed in verify_mall), the start click
\* writes none, no path is written twice within a run, at most 3 (rpg) or 1
\* (mall) checkpoint artifacts are written, which is below the 4
\* checkpoints, and a run in which every step succeeded wrote all of them.
ArtifactsPerRun ==
  (target.reachable /\ target.canvas) =>
    /\ \A k \in Idx : WrittenAt(k) =>
         /\ trace[k].arg \in ScriptPngs(script)
         /\ ArtifactFile(trace[k].arg, run) \in files
         /\ \A j \in Idx : (WrittenAt(j) /\ trace[j].arg = trace[k].arg) => j = k
    /\ files = prevFiles \cup {ArtifactFile(trace[k].arg, run) :
                                k \in {j \in Idx : trace[j].op = "screenshot" /\ Ok(j)}}
    /\ Count({k \in Idx : WrittenAt(k)}) <= MaxArtifacts(script)
    /\ MaxArtifacts(script) < Count(Checkpoints)
    /\ (pc = "done" /\ \A k \in Idx : Ok(k)) =>
         {trace[k].arg : k \in {j \in Idx : WrittenAt(j)}}
           = (IF script = "rpg" THEN {MenuPng, IntroPng, GameplayHudPng}
              ELSE IF script = "mall" THEN {MallGameplayPng} ELSE {})
ArtifactsPerRunWitness ==
  /\ pc = "done" /\ script = "rpg" /\ target.reachable /\ target.canvas
  /\ \A k \in Idx : Ok(k)
  /\ Count({k \in Idx : WrittenAt(k)}) = 3

\* C6: in a finished run whose capture of 1_menu.png failed, the start click
\* was still attempted afterwards.
CaptureErrorOnlyLogged ==
  pc = "done" =>
    \A k \in Idx : (IsShot(k, MenuPng) /\ Raised(k))
       => \E j \in Idx : j > k /\ IsCall(j, "click_text")

\* the checkpoint screenshot attempts of the run, in the order they were made
CheckpointShots == SelectSeq(trace, LAMBDA e : e.op = "screenshot" /\ e.arg \in CheckpointPngs)
RpgOrder == <<MenuPng, IntroPng, GameplayHudPng>>

\* C7: no checkpoint screenshot is taken before goto and the canvas wait
\* both succeeded; in verify_rpg_gameplay the checkpoint captures are a
\* prefix of 1_menu, 2_dialogue_intro, 3_gameplay_hud, each taken only after
\* the one before it succeeded, with the start click after 1_menu and before
\* 2_dialogue_intro; and in both scripts exactly five clicks at (640, 360)
\* lie between the successful start click and the final gameplay capture.
ScriptedOrder ==
  /\ \A k \in Idx : IsCheckpointShot(k) =>
       \E g \in Idx : \E w \in Idx :
         /\ g < w /\ w < k
         /\ IsCall(g, "goto") /\ Ok(g)
         /\ IsCall(w, "wait_for_selector") /\ Ok(w)
  /\ script = "rpg" =>
       /\ Len(CheckpointShots) <= 3
       /\ \A n \in 1..Len(CheckpointShots) :
            /\ CheckpointShots[n].arg = RpgOrder[n]
            /\ n < Len(CheckpointShots) => CheckpointShots[n].res = "ok"
       /\ \A k \in Idx : IsCall(k, "click_text") =>
            /\ \E m \in Idx : m < k /\ IsShot(m, MenuPng) /\ Ok(m)
            /\ \A n \in Idx : IsShot(n, IntroPng) => n > k
  /\ \A k \in Idx : (trace[k].op = "screenshot" /\ trace[k].arg \in GameplayPngs) =>
       \E c \in Idx :
         /\ c < k /\ IsCall(c, "click_text") /\ Ok(c)
         /\ Count({j \in Idx : /\ c < j /\ j < k
                               /\ IsCall(j, "mouse_click") /\ Ok(j)
                               /\ trace[j].x = 640 /\ trace[j].y = 360}) = 5
         /\ \A j \in Idx : IsCall(j, "mouse_click") => (c < j /\ j < k)
ScriptedOrderWitness ==
  /\ pc = "done" /\ script = "rpg"
  /\ \E k \in Idx : IsShot(k, GameplayHudPng)
  /\ Len(CheckpointShots) = 3

\* C8: within one run the URL is navigated to at most once, the canvas is
\* waited for at most once, the start click is attempted at most once, and
\* no call that raised is made again later in the run.
SinglePass ==
  /\ Count({k \in Idx : IsCall(k, "goto")}) <= 1
  /\ Count({k \in Idx : IsCall(k, "wait_for_selector")}) <= 1
  /\ Count({k \in Idx : IsCall(k, "click_text")}) <= 1
  /\ \A j \in Idx : \A k \in Idx :
       (j < k /\ Raised(j)) => ~(trace[k].op = trace[j].op /\ trace[k].arg = trace[j].arg)
SinglePassWitness ==
  /\ pc = "done"
  /\ \E k \in Idx : IsCall(k, "goto") /\ Raised(k)

\* C9: every run that is started ends, with the browser not left open: a
\* canvas wait that finds no canvas fails instead of blocking, and no step
\* repeats except the click loop, which makes at most five clicks.
RunEndsClosed ==
  /\ \A r \in 1..MaxRuns :
       [](((run = r) /\ (pc = "launch"))
            => <>((run = r) /\ (pc = "done") /\ (browser # "open")))
  /\ [](Count({k \in Idx : IsCall(k, "mouse_click")}) <= 5)
RunEndsClosedWitness ==
  /\ pc = "done" /\ browser = "closed" /\ ~target.canvas
  /\ \E k \in Idx : IsCall(k, "wait_for_selector") /\ Raised(k)

\* C10: when a second run made the same calls with the same outcomes as the
\* run before it, the files present after it are the files present before it.
RerunOverwrites ==
  (run > 1 /\ pc = "done" /\ trace = prevTrace) => files = prevFiles
RerunOverwritesWitness ==
  /\ run > 1 /\ pc = "done" /\ trace = prevTrace
  /\ Count(files) >= 3

Next ==
  \/ Rpg_Launch \/ Rpg_NewPage \/ Rpg_SetViewport \/ Rpg_Goto \/ Rpg_WaitCanvas
  \/ Rpg_ScreenshotMenu \/ Rpg_ClickStart \/ Rpg_ScreenshotIntro \/ Rpg_CenterClick
  \/ Rpg_ScreenshotGameplay \/ Rpg_Handler \/ Rpg_Finally
  \/ Mall_Launch \/ Mall_NewPage \/ Mall_Goto \/ Mall_WaitCanvas \/ Mall_IsVisible
  \/ Mall_ClickStart \/ Mall_CenterClick \/ Mall_ScreenshotGameplay
  \/ Mall_ScreenshotMenuFailed \/ Mall_Handler \/ Mall_Finally
  \/ Rpg_WithExit \/ Mall_WithExit
  \/ Game_Compile
  \/ Rerun

Spec == Init /\ [][Next]_vars

\* A run is a sequential program: whenever a step is enabled, it is taken.
FairSpec == Spec /\ WF_vars(Next)
====
